---- MODULE Spec2Model ----
(***************************************************************************)
(* Model of util/testutil/integration/dockerd.go: moby.New (the bootstrap  *)
(* of an ephemeral dockerd, with its multiCloser of release actions), the  *)
(* teardown handle it returns, and the unix-socket relay (accept loop and  *)
(* per-connection forwarding tasks in one errgroup).                       *)
(***************************************************************************)
EXTENDS Integers, Sequences, FiniteSets, TLC

\* Number of local clients that may connect to the relay.
MaxConns == 2
\* Number of times the caller may invoke the teardown handle.
MaxTeardownCalls == 2
\* Number of bytes written in all, by the local clients and the backend.
MaxBytes == 3
\* Largest timeout d given to waitForAPI, in units of 10 ms.
MaxTimeoutTens == 20

\* step := 50 * time.Millisecond
StepMs == 50
\* The k-th byte written on connection c by the client, and by the backend:
\* all different, so that a byte shows where it came from.
ClientByte(c, k) == 10 * c + k
BackendByte(c, k) == 0 - (10 * c + k)

Conns == 1..MaxConns

VARIABLES
    \* ---- moby.New: position and named results (b, cl, err) ----
    pc,            \* the step moby.New is at
    b,             \* named result b: "nil" | "backend"
    cl,            \* named result cl: "nil" | "handle"
    err,           \* named result err: "nil" | the error of a step
    failStep,      \* history: the step that failed ("none" if none did)
    \* ---- multiCloser ----
    fns,           \* deferF.fns: registered release actions, oldest first
    regLog,        \* history: every release action ever registered, in order
    callLog,       \* history: every release action ever invoked, in order
    relPc,         \* the closure deferF.F(): "idle" | "run"
    relWho,        \* who runs it: "unwind" (the defer of New) | "caller"
    relI,          \* loop index i of the closure
    relN,          \* len(mc.fns) the range loop was started with
    relErr,        \* the closure's collected error
    \* ---- the caller's use of the teardown handle ----
    tdLog,         \* history: per returned teardown call, <<actions invoked, result>>
    inFlightAtTd,  \* history: relay tasks running when the first teardown began
    \* ---- resources ----
    workDir,       \* os.MkdirTemp directory exists
    daemon,        \* "none" | "running" | "stopped"
    api,           \* dockerAPI client: "none" | "open" | "closed"
    listener,      \* "none" | "open" | "closed"
    \* ---- relay ----
    acceptPc,      \* accept-loop task: "off" | "accept" | "dial" | "go1" | "go2" | "done"
    cur,           \* the connection the accept loop holds as tmpConn (0: none)
    acceptRet,     \* what the accept-loop task returned: "none" | "nil" | error
    acceptErrCause,\* history: why Accept failed: "none" | "closed" | "other"
    groupErr,      \* errgroup: first non-nil error returned by a task
    local,         \* per connection, tmpConn: "none" | "pending" | "accepted" | "closed" | "dropped"
    clientClosed,  \* per connection: the local client closed its end
    stream,        \* per connection, conn: "none" | "open" | "closed" | "failed"
    backendEnded,  \* per connection: the backend ended the stream
    l2b,           \* per connection, task io.Copy(conn, tmpConn): "none" | "run" | "ok" | "err"
    b2l,           \* per connection, task io.Copy(tmpConn, conn): "none" | "run" | "ok" | "err"
    lateDialFail,  \* history: DialHijack failed after the listener had been closed
    \* ---- bytes on the relayed connections ----
    clientSent,    \* per connection, history: bytes the local client wrote
    c2r,           \* per connection: bytes written by the client, not yet read from tmpConn
    toBackend,     \* per connection: bytes written to conn (delivered to the backend)
    backendSent,   \* per connection, history: bytes the backend wrote
    b2r,           \* per connection: bytes written by the backend, not yet read from conn
    toClient,      \* per connection: bytes written to tmpConn (delivered to the client)
    \* ---- waitForAPI ----
    wPc,           \* "idle" | "ping" | "sleep" | "done"
    wD,            \* the timeout d, in milliseconds
    wI,            \* the counter i
    wCalls,        \* history: calls of apiClient.Ping
    wSleeps,       \* history: calls of time.Sleep(step)
    wOkAt,         \* history: the call of Ping that returned no error (0: none)
    wRet           \* "none" | "nil" | "E_ping"

newVars == <<pc, b, cl, err, failStep>>
closerVars == <<fns, regLog, callLog, relPc, relWho, relI, relN, relErr>>
callerVars == <<tdLog, inFlightAtTd>>
resVars == <<workDir, daemon, api, listener>>
loopVars == <<acceptPc, cur, acceptRet, acceptErrCause, lateDialFail>>
connVars == <<local, clientClosed, stream, backendEnded, l2b, b2l>>
byteVars == <<clientSent, c2r, toBackend, backendSent, b2r, toClient>>
pollVars == <<wPc, wD, wI, wCalls, wSleeps, wOkAt, wRet>>
auxVars == <<byteVars, pollVars>>
vars == <<newVars, closerVars, callerVars, resVars, loopVars, groupErr, connVars, auxVars>>

Reverse(s) == [i \in 1..Len(s) |-> s[Len(s) + 1 - i]]

\* The error value a failing step produces (one distinct error per step).
StepErr(step) ==
    CASE step = "requireRoot" -> "E_requireRoot"
      [] step = "loadFile"    -> "E_loadFile"
      [] step = "marshal"     -> "E_marshal"
      [] step = "mkdirTemp"   -> "E_mkdirTemp"
      [] step = "newDaemon"   -> "E_newDaemon"
      [] step = "writeFile"   -> "E_writeFile"
      [] step = "start"       -> "E_start"
      [] step = "waitUnix"    -> "E_waitUnix"
      [] step = "newClient"   -> "E_newClient"
      [] step = "waitForAPI"  -> "E_waitForAPI"
      [] step = "createTemp"  -> "E_createTemp"
      [] step = "listen"      -> "E_listen"

\* no byte has been written on any connection
NoBytes ==
    /\ clientSent = [c \in Conns |-> <<>>] /\ c2r = [c \in Conns |-> <<>>]
    /\ toBackend = [c \in Conns |-> <<>>]
    /\ backendSent = [c \in Conns |-> <<>>] /\ b2r = [c \in Conns |-> <<>>]
    /\ toClient = [c \in Conns |-> <<>>]

\* waitForAPI is not being run
PollIdle ==
    /\ wPc = "idle" /\ wD = 0 /\ wI = 0 /\ wCalls = 0 /\ wSleeps = 0
    /\ wOkAt = 0 /\ wRet = "none"

Init ==
    /\ pc = "requireRoot" /\ b = "nil" /\ cl = "nil" /\ err = "nil"
    /\ failStep = "none"
    /\ fns = <<>> /\ regLog = <<>> /\ callLog = <<>>
    /\ relPc = "idle" /\ relWho = "none" /\ relI = 0 /\ relN = 0 /\ relErr = "nil"
    /\ tdLog = <<>> /\ inFlightAtTd = 0
    /\ workDir = FALSE /\ daemon = "none" /\ api = "none" /\ listener = "none"
    /\ acceptPc = "off" /\ cur = 0 /\ acceptRet = "none" /\ acceptErrCause = "none"
    /\ groupErr = "nil"
    /\ local = [c \in Conns |-> "none"]
    /\ clientClosed = [c \in Conns |-> FALSE]
    /\ stream = [c \in Conns |-> "none"]
    /\ backendEnded = [c \in Conns |-> FALSE]
    /\ l2b = [c \in Conns |-> "none"]
    /\ b2l = [c \in Conns |-> "none"]
    /\ lateDialFail = FALSE
    /\ NoBytes
    /\ PollIdle

\* ------------------------------------------------------------------------
\* multiCloser (declared outside this file; modelled from its contract)

\* deferF.append(f)
append(f) ==
    /\ fns' = Append(fns, f)
    /\ regLog' = Append(regLog, f)

\* Calling the closure deferF.F(): the range loop fixes len(mc.fns).
StartRelease(who) ==
    /\ relPc' = "run" /\ relWho' = who
    /\ relI' = 0 /\ relN' = Len(fns) /\ relErr' = "nil"

\* ------------------------------------------------------------------------
\* moby.New, step by step

\* `return nil, nil, e` before the defer is installed
ReturnEarly(step) ==
    /\ b' = "nil" /\ cl' = "nil" /\ err' = StepErr(step)
    /\ failStep' = step /\ pc' = "returned"

\* `return nil, nil, e` once the defer is installed: results set, defer next
ReturnErr(step) ==
    /\ b' = "nil" /\ cl' = "nil" /\ err' = StepErr(step)
    /\ failStep' = step /\ pc' = "defer"

\* the bare `return` after os.CreateTemp failed: b and cl keep their values
ReturnBare(step) ==
    /\ err' = StepErr(step) /\ UNCHANGED <<b, cl>>
    /\ failStep' = step /\ pc' = "defer"

Goto(next) == pc' = next /\ UNCHANGED <<b, cl, err, failStep>>

RequireRoot ==
    /\ pc = "requireRoot"
    /\ \/ Goto("loadFile")
       \/ ReturnEarly("requireRoot")
    /\ UNCHANGED <<closerVars, callerVars, resVars, loopVars, groupErr, connVars>>
    /\ UNCHANGED auxVars

LoadFile ==
    /\ pc = "loadFile"
    /\ \/ Goto("marshal")
       \/ ReturnEarly("loadFile")
    /\ UNCHANGED <<closerVars, callerVars, resVars, loopVars, groupErr, connVars>>
    /\ UNCHANGED auxVars

\* (variant: proxyGroup.Wait is not registered)
RegisterWaitOmitted == UNCHANGED <<fns, regLog>>

\* json.Marshal; on success deferF is made, cl = deferF.F(), the defer is
\* installed and proxyGroup.Wait is registered.
RegisterWait == append("Wait")

Marshal ==
    /\ pc = "marshal"
    /\ \/ /\ pc' = "mkdirTemp" /\ cl' = "handle"
          /\ UNCHANGED <<b, err, failStep>>
          /\ RegisterWait
          /\ UNCHANGED <<callLog, relPc, relWho, relI, relN, relErr>>
       \/ /\ ReturnEarly("marshal")
          /\ UNCHANGED closerVars
    /\ UNCHANGED <<callerVars, resVars, loopVars, groupErr, connVars>>
    /\ UNCHANGED auxVars

MkdirTemp ==
    /\ pc = "mkdirTemp"
    /\ \/ /\ Goto("newDaemon") /\ workDir' = TRUE
       \/ /\ ReturnErr("mkdirTemp") /\ UNCHANGED workDir
    /\ UNCHANGED <<closerVars, callerVars, daemon, api, listener, loopVars, groupErr, connVars>>
    /\ UNCHANGED auxVars

NewDaemon ==
    /\ pc = "newDaemon"
    /\ \/ Goto("writeFile")
       \/ ReturnErr("newDaemon")
    /\ UNCHANGED <<closerVars, callerVars, resVars, loopVars, groupErr, connVars>>
    /\ UNCHANGED auxVars

WriteFile ==
    /\ pc = "writeFile"
    /\ \/ Goto("start")
       \/ ReturnErr("writeFile")
    /\ UNCHANGED <<closerVars, callerVars, resVars, loopVars, groupErr, connVars>>
    /\ UNCHANGED auxVars

\* (variant: d.StopWithError is not registered)
RegisterStopOmitted == UNCHANGED <<fns, regLog>>

\* d.StartWithError, and on success deferF.append(d.StopWithError)
RegisterStop == append("Stop")

StartDaemon ==
    /\ pc = "start"
    /\ \/ /\ Goto("waitUnix") /\ daemon' = "running"
          /\ RegisterStop
          /\ UNCHANGED <<callLog, relPc, relWho, relI, relN, relErr>>
       \/ /\ ReturnErr("start") /\ UNCHANGED <<daemon, closerVars>>
    /\ UNCHANGED <<callerVars, workDir, api, listener, loopVars, groupErr, connVars>>
    /\ UNCHANGED auxVars

WaitUnix ==
    /\ pc = "waitUnix"
    /\ \/ Goto("newClient")
       \/ ReturnErr("waitUnix")
    /\ UNCHANGED <<closerVars, callerVars, resVars, loopVars, groupErr, connVars>>
    /\ UNCHANGED auxVars

\* client.NewClientWithOpts, and on success deferF.append(dockerAPI.Close)
RegisterApiClose == append("ApiClose")

NewClient ==
    /\ pc = "newClient"
    /\ \/ /\ Goto("waitForAPI") /\ api' = "open"
          /\ RegisterApiClose
          /\ UNCHANGED <<callLog, relPc, relWho, relI, relN, relErr>>
       \/ /\ ReturnErr("newClient") /\ UNCHANGED <<api, closerVars>>
    /\ UNCHANGED <<callerVars, workDir, daemon, listener, loopVars, groupErr, connVars>>
    /\ UNCHANGED auxVars

\* err = waitForAPI(ctx, dockerAPI, 5*time.Second)
WaitForAPI ==
    /\ pc = "waitForAPI"
    /\ \/ Goto("createTemp")
       \/ ReturnErr("waitForAPI")
    /\ UNCHANGED <<closerVars, callerVars, resVars, loopVars, groupErr, connVars>>
    /\ UNCHANGED auxVars

\* os.CreateTemp; its failure takes the bare return. On success the file is
\* closed and removed at once.
CreateTemp ==
    /\ pc = "createTemp"
    /\ \/ Goto("listen")
       \/ ReturnBare("createTemp")
    /\ UNCHANGED <<closerVars, callerVars, resVars, loopVars, groupErr, connVars>>
    /\ UNCHANGED auxVars

\* (variant: listener.Close is put in front of the list, so that it runs last)
RegisterListenerCloseFirst ==
    /\ fns' = <<"ListenerClose">> \o fns
    /\ regLog' = Append(regLog, "ListenerClose")

\* net.Listen, and on success deferF.append(listener.Close)
RegisterListenerClose == append("ListenerClose")

Listen ==
    /\ pc = "listen"
    /\ \/ /\ Goto("goRelay") /\ listener' = "open"
          /\ RegisterListenerClose
          /\ UNCHANGED <<callLog, relPc, relWho, relI, relN, relErr>>
       \/ /\ ReturnErr("listen") /\ UNCHANGED <<listener, closerVars>>
    /\ UNCHANGED <<callerVars, workDir, daemon, api, loopVars, groupErr, connVars>>
    /\ UNCHANGED auxVars

\* (variant: a step that can fail follows the start of the accept loop)
GoRelayThenFallible ==
    /\ pc = "goRelay"
    /\ acceptPc' = "accept"
    /\ \/ b' = "backend" /\ err' = "nil" /\ UNCHANGED <<cl, failStep>> /\ pc' = "defer"
       \/ ReturnErr("listen")
    /\ UNCHANGED <<closerVars, callerVars, resVars, cur, acceptRet, acceptErrCause, lateDialFail,
                   groupErr, connVars>>
    /\ UNCHANGED auxVars

\* proxyGroup.Go(accept loop), then `return backend{...}, cl, nil`
GoRelay ==
    /\ pc = "goRelay"
    /\ acceptPc' = "accept"
    /\ b' = "backend" /\ err' = "nil" /\ UNCHANGED <<cl, failStep>>
    /\ pc' = "defer"
    /\ UNCHANGED <<closerVars, callerVars, resVars, cur, acceptRet, acceptErrCause, lateDialFail,
                   groupErr, connVars>>
    /\ UNCHANGED auxVars

\* The deferred function: if err != nil { deferF.F()(); cl = nil }
DeferEnter ==
    /\ pc = "defer"
    /\ \/ /\ err # "nil"
          /\ StartRelease("unwind")
          /\ pc' = "unwind"
       \/ /\ err = "nil"
          /\ pc' = "returned"
          /\ UNCHANGED <<relPc, relWho, relI, relN, relErr>>
    /\ UNCHANGED <<b, cl, err, failStep, fns, regLog, callLog>>
    /\ UNCHANGED <<callerVars, resVars, loopVars, groupErr, connVars>>
    /\ UNCHANGED auxVars

\* ------------------------------------------------------------------------
\* errgroup.Group bookkeeping

\* the group keeps the first non-nil error a task returns
FirstErr(e) == IF groupErr = "nil" THEN e ELSE groupErr

LoopRunning == acceptPc \in {"accept", "dial", "go1", "go2"}
RunningFwd == Cardinality({c \in Conns : l2b[c] = "run"})
                + Cardinality({c \in Conns : b2l[c] = "run"})
\* (variant: the accept loop runs outside the group)
RunningTasksLoopOutside == RunningFwd

\* the group's WaitGroup counter
RunningTasks == (IF LoopRunning THEN 1 ELSE 0) + RunningFwd

\* ------------------------------------------------------------------------
\* The closure returned by deferF.F(), one release action per step

NextFn == fns[relN - relI]

Invoked(fn, res) ==
    /\ callLog' = Append(callLog, fn)
    /\ relErr' = (IF relErr = "nil" THEN res ELSE relErr)
    /\ relI' = relI + 1
    /\ UNCHANGED <<fns, regLog, relPc, relWho, relN>>

CanInvoke(fn) == relPc = "run" /\ relI < relN /\ NextFn = fn

\* listener.Close(): connections still in the backlog are dropped
ReleaseListenerClose ==
    /\ CanInvoke("ListenerClose")
    /\ \E res \in {"nil", "E_release"} : Invoked("ListenerClose", res)
    /\ listener' = "closed"
    /\ local' = [c \in Conns |-> IF local[c] = "pending" THEN "dropped" ELSE local[c]]
    /\ UNCHANGED <<newVars, callerVars, workDir, daemon, api, loopVars, groupErr,
                   clientClosed, stream, backendEnded, l2b, b2l>>
    /\ UNCHANGED auxVars

\* dockerAPI.Close()
ReleaseApiClose ==
    /\ CanInvoke("ApiClose")
    /\ \E res \in {"nil", "E_release"} : Invoked("ApiClose", res)
    /\ api' = "closed"
    /\ UNCHANGED <<newVars, callerVars, workDir, daemon, listener, loopVars, groupErr,
                   connVars>>
    /\ UNCHANGED auxVars

\* d.StopWithError(): the daemon goes away and with it every open stream
ReleaseStop ==
    /\ CanInvoke("Stop")
    /\ \E res \in {"nil", "E_release"} : Invoked("Stop", res)
    /\ daemon' = "stopped"
    /\ backendEnded' = [c \in Conns |-> backendEnded[c] \/ stream[c] = "open"]
    /\ UNCHANGED <<newVars, callerVars, workDir, api, listener, loopVars, groupErr,
                   local, clientClosed, stream, l2b, b2l>>
    /\ UNCHANGED auxVars

\* proxyGroup.Wait(): blocks until the group's counter is zero, returns its error
ReleaseWait ==
    /\ CanInvoke("Wait")
    /\ RunningTasks = 0
    /\ Invoked("Wait", groupErr)
    /\ UNCHANGED <<newVars, callerVars, resVars, loopVars, groupErr, connVars>>
    /\ UNCHANGED auxVars

\* (variant: the closure leaves mc.fns as it is)
ClearFnsOmitted == UNCHANGED fns

\* end of the closure: mc.fns = nil
ClearFns == fns' = <<>>

\* (variant: the deferred function returns the closure's error to the caller)
UnwindDoneTeardownErr ==
    /\ relPc = "run" /\ relI = relN /\ relWho = "unwind"
    /\ ClearFns
    /\ relPc' = "idle"
    /\ cl' = "nil" /\ pc' = "returned"
    /\ err' = (IF relErr # "nil" THEN relErr ELSE err)
    /\ UNCHANGED <<b, failStep>>
    /\ UNCHANGED <<regLog, callLog, relWho, relI, relN, relErr>>
    /\ UNCHANGED <<callerVars, resVars, loopVars, groupErr, connVars>>
    /\ UNCHANGED auxVars

\* (variant: the deferred function does not reset cl)
UnwindDoneKeepsCl ==
    /\ relPc = "run" /\ relI = relN /\ relWho = "unwind"
    /\ ClearFns
    /\ relPc' = "idle"
    /\ pc' = "returned"
    /\ UNCHANGED <<b, cl, err, failStep>>
    /\ UNCHANGED <<regLog, callLog, relWho, relI, relN, relErr>>
    /\ UNCHANGED <<callerVars, resVars, loopVars, groupErr, connVars>>
    /\ UNCHANGED auxVars

\* the closure called by the defer of New returns: its result is dropped,
\* then cl = nil, and New returns
UnwindDone ==
    /\ relPc = "run" /\ relI = relN /\ relWho = "unwind"
    /\ ClearFns
    /\ relPc' = "idle"
    /\ cl' = "nil" /\ pc' = "returned"
    /\ UNCHANGED <<b, err, failStep>>
    /\ UNCHANGED <<regLog, callLog, relWho, relI, relN, relErr>>
    /\ UNCHANGED <<callerVars, resVars, loopVars, groupErr, connVars>>
    /\ UNCHANGED auxVars

\* ------------------------------------------------------------------------
\* The caller and its teardown handle

TeardownCall ==
    /\ pc = "returned" /\ cl = "handle" /\ relPc = "idle"
    /\ Len(tdLog) < MaxTeardownCalls
    /\ StartRelease("caller")
    /\ inFlightAtTd' = (IF Len(tdLog) = 0 THEN RunningFwd ELSE inFlightAtTd)
    /\ UNCHANGED <<newVars, fns, regLog, callLog, tdLog, resVars,
                   loopVars, groupErr, connVars>>
    /\ UNCHANGED auxVars

TeardownReturn ==
    /\ relPc = "run" /\ relI = relN /\ relWho = "caller"
    /\ ClearFns
    /\ relPc' = "idle"
    /\ tdLog' = Append(tdLog, <<relI, relErr>>)
    /\ UNCHANGED <<regLog, callLog, relWho, relI, relN, relErr>>
    /\ UNCHANGED <<newVars, inFlightAtTd, resVars, loopVars, groupErr, connVars>>
    /\ UNCHANGED auxVars

\* ------------------------------------------------------------------------
\* Environment: local clients and the backend

\* a client connects to the listener (connections are numbered as they come)
ClientConnect(c) ==
    /\ listener = "open"
    /\ local[c] = "none"
    /\ \A d \in Conns : d < c => local[d] # "none"
    /\ local' = [local EXCEPT ![c] = "pending"]
    /\ UNCHANGED <<newVars, closerVars, callerVars, resVars, loopVars, groupErr,
                   clientClosed, stream, backendEnded, l2b, b2l>>
    /\ UNCHANGED auxVars

\* the client closes its end of the connection
ClientClose(c) ==
    /\ local[c] \in {"pending", "accepted"}
    /\ ~clientClosed[c]
    /\ clientClosed' = [clientClosed EXCEPT ![c] = TRUE]
    /\ UNCHANGED <<newVars, closerVars, callerVars, resVars, loopVars, groupErr,
                   local, stream, backendEnded, l2b, b2l>>
    /\ UNCHANGED auxVars

\* the backend ends one stream on its own
BackendEnd(c) ==
    /\ stream[c] = "open"
    /\ ~backendEnded[c]
    /\ backendEnded' = [backendEnded EXCEPT ![c] = TRUE]
    /\ UNCHANGED <<newVars, closerVars, callerVars, resVars, loopVars, groupErr,
                   local, clientClosed, stream, l2b, b2l>>
    /\ UNCHANGED auxVars

\* ------------------------------------------------------------------------
\* The accept loop (first task of proxyGroup)

Pending == {c \in Conns : local[c] = "pending"}

\* listener.Accept() returns the oldest waiting connection
Accept ==
    /\ acceptPc = "accept" /\ listener = "open"
    /\ Pending # {}
    /\ LET c == CHOOSE x \in Pending : \A y \in Pending : x <= y IN
          /\ cur' = c
          /\ local' = [local EXCEPT ![c] = "accepted"]
    /\ acceptPc' = "dial"
    /\ UNCHANGED <<newVars, closerVars, callerVars, resVars, acceptRet, acceptErrCause, lateDialFail,
                   groupErr, clientClosed, stream, backendEnded, l2b, b2l>>
    /\ UNCHANGED auxVars

\* listener.Accept() fails because the listener was closed: return nil
AcceptErrClosed ==
    /\ acceptPc = "accept" /\ listener = "closed"
    /\ acceptErrCause' = "closed"
    /\ acceptRet' = "nil"
    /\ acceptPc' = "done"
    /\ UNCHANGED <<newVars, closerVars, callerVars, resVars, cur, lateDialFail, groupErr, connVars>>
    /\ UNCHANGED auxVars

\* listener.Accept() fails while the listener is open (a system error such
\* as running out of descriptors): the same branch, return nil
AcceptErrOther ==
    /\ acceptPc = "accept" /\ listener = "open"
    /\ acceptErrCause' = "other"
    /\ acceptRet' = "nil"
    /\ acceptPc' = "done"
    /\ UNCHANGED <<newVars, closerVars, callerVars, resVars, cur, lateDialFail, groupErr, connVars>>
    /\ UNCHANGED auxVars

\* dockerAPI.DialHijack succeeds
DialOK ==
    /\ acceptPc = "dial" /\ daemon = "running"
    /\ stream' = [stream EXCEPT ![cur] = "open"]
    /\ acceptPc' = "go1"
    /\ UNCHANGED <<newVars, closerVars, callerVars, resVars, cur, acceptRet, acceptErrCause, lateDialFail,
                   groupErr, local, clientClosed, backendEnded, l2b, b2l>>
    /\ UNCHANGED auxVars

\* dockerAPI.DialHijack fails: `return err` ends the accept loop; tmpConn is
\* left as it is
DialFail ==
    /\ acceptPc = "dial"
    /\ stream' = [stream EXCEPT ![cur] = "failed"]
    /\ acceptRet' = "E_dial"
    /\ groupErr' = FirstErr("E_dial")
    /\ acceptPc' = "done"
    /\ cur' = 0
    /\ lateDialFail' = (lateDialFail \/ listener = "closed")
    /\ UNCHANGED <<newVars, closerVars, callerVars, resVars, acceptErrCause,
                   local, clientClosed, backendEnded, l2b, b2l>>
    /\ UNCHANGED auxVars

\* proxyGroup.Go(io.Copy(conn, tmpConn) ...)
GoL2B ==
    /\ acceptPc = "go1"
    /\ l2b' = [l2b EXCEPT ![cur] = "run"]
    /\ acceptPc' = "go2"
    /\ UNCHANGED <<newVars, closerVars, callerVars, resVars, cur, acceptRet, acceptErrCause, lateDialFail,
                   groupErr, local, clientClosed, stream, backendEnded, b2l>>
    /\ UNCHANGED auxVars

\* proxyGroup.Go(io.Copy(tmpConn, conn) ...), then back to Accept
GoB2L ==
    /\ acceptPc = "go2"
    /\ b2l' = [b2l EXCEPT ![cur] = "run"]
    /\ acceptPc' = "accept"
    /\ cur' = 0
    /\ UNCHANGED <<newVars, closerVars, callerVars, resVars, acceptRet, acceptErrCause, lateDialFail,
                   groupErr, local, clientClosed, stream, backendEnded, l2b>>
    /\ UNCHANGED auxVars

\* ------------------------------------------------------------------------
\* The forwarding tasks of connection c

\* io.Copy(conn, tmpConn) reads end-of-stream: return tmpConn.Close()
L2BEof(c) ==
    /\ l2b[c] = "run" /\ clientClosed[c] /\ c2r[c] = <<>>
    /\ local' = [local EXCEPT ![c] = "closed"]
    /\ l2b' = [l2b EXCEPT ![c] = "ok"]
    /\ UNCHANGED <<newVars, closerVars, callerVars, resVars, loopVars, groupErr,
                   clientClosed, stream, backendEnded, b2l>>
    /\ UNCHANGED auxVars

\* (variant: an error cancels the whole group, the accept loop included)
L2BErrCancelsGroup(c) ==
    /\ l2b[c] = "run"
    /\ l2b' = [l2b EXCEPT ![c] = "err"]
    /\ groupErr' = FirstErr("E_io")
    /\ acceptPc' = (IF LoopRunning THEN "done" ELSE acceptPc)
    /\ UNCHANGED <<newVars, closerVars, callerVars, resVars, cur, acceptRet, acceptErrCause, lateDialFail,
                   local, clientClosed, stream, backendEnded, b2l>>
    /\ UNCHANGED auxVars

\* io.Copy(conn, tmpConn) fails (a read error on tmpConn or a write error on
\* conn): return err, nothing is closed
L2BErr(c) ==
    /\ l2b[c] = "run"
    /\ l2b' = [l2b EXCEPT ![c] = "err"]
    /\ groupErr' = FirstErr("E_io")
    /\ UNCHANGED <<newVars, closerVars, callerVars, resVars, loopVars,
                   local, clientClosed, stream, backendEnded, b2l>>
    /\ UNCHANGED auxVars

\* io.Copy(tmpConn, conn) reads end-of-stream: return conn.Close()
B2LEof(c) ==
    /\ b2l[c] = "run" /\ backendEnded[c] /\ b2r[c] = <<>>
    /\ stream' = [stream EXCEPT ![c] = "closed"]
    /\ b2l' = [b2l EXCEPT ![c] = "ok"]
    /\ UNCHANGED <<newVars, closerVars, callerVars, resVars, loopVars, groupErr,
                   local, clientClosed, backendEnded, l2b>>
    /\ UNCHANGED auxVars

\* io.Copy(tmpConn, conn) fails (a read error on conn or a write error on
\* tmpConn): return err, nothing is closed
B2LErr(c) ==
    /\ b2l[c] = "run"
    /\ b2l' = [b2l EXCEPT ![c] = "err"]
    /\ groupErr' = FirstErr("E_io")
    /\ UNCHANGED <<newVars, closerVars, callerVars, resVars, loopVars,
                   local, clientClosed, stream, backendEnded, l2b>>
    /\ UNCHANGED auxVars

\* ------------------------------------------------------------------------

Next ==
    \/ RequireRoot \/ LoadFile \/ Marshal \/ MkdirTemp \/ NewDaemon \/ WriteFile
    \/ StartDaemon \/ WaitUnix \/ NewClient \/ WaitForAPI \/ CreateTemp \/ Listen
    \/ GoRelay \/ DeferEnter \/ UnwindDone
    \/ ReleaseListenerClose \/ ReleaseApiClose \/ ReleaseStop \/ ReleaseWait
    \/ TeardownCall \/ TeardownReturn
    \/ Accept \/ AcceptErrClosed \/ AcceptErrOther \/ DialOK \/ DialFail \/ GoL2B \/ GoB2L
    \/ \E c \in Conns : ClientConnect(c)
    \/ \E c \in Conns : ClientClose(c)
    \/ \E c \in Conns : BackendEnd(c)
    \/ \E c \in Conns : L2BEof(c)
    \/ \E c \in Conns : L2BErr(c)
    \/ \E c \in Conns : B2LEof(c)
    \/ \E c \in Conns : B2LErr(c)

Spec == Init /\ [][Next]_vars

\* Steps the program takes by itself once they are enabled. The caller's
\* teardown call, the clients, the backend and I/O failures are not among them.
NewStep ==
    \/ RequireRoot \/ LoadFile \/ Marshal \/ MkdirTemp \/ NewDaemon \/ WriteFile
    \/ StartDaemon \/ WaitUnix \/ NewClient \/ WaitForAPI \/ CreateTemp \/ Listen
    \/ GoRelay \/ DeferEnter \/ UnwindDone
CloserStep ==
    \/ ReleaseListenerClose \/ ReleaseApiClose \/ ReleaseStop \/ ReleaseWait
    \/ TeardownReturn
LoopStep == Accept \/ AcceptErrClosed \/ DialOK \/ DialFail \/ GoL2B \/ GoB2L

FairSpec ==
    /\ Spec
    /\ WF_vars(NewStep) /\ WF_vars(CloserStep) /\ WF_vars(LoopStep)
    /\ \A c \in Conns : WF_vars(L2BEof(c)) /\ WF_vars(B2LEof(c))

\* ------------------------------------------------------------------------
\* Bytes through the relay

IsPrefix(s, t) == Len(s) <= Len(t) /\ s = SubSeq(t, 1, Len(s))

SumLen(f) == LET RECURSIVE Sum(_)
                 Sum(S) == IF S = {} THEN 0
                           ELSE LET x == CHOOSE y \in S : TRUE
                                IN Len(f[x]) + Sum(S \ {x})
             IN Sum(Conns)
Written == SumLen(clientSent) + SumLen(backendSent)

\* the local client writes a byte on its connection
ClientWrite(c) ==
    /\ local[c] \in {"pending", "accepted"} /\ ~clientClosed[c]
    /\ Written < MaxBytes
    /\ LET v == ClientByte(c, Len(clientSent[c]) + 1) IN
          /\ clientSent' = [clientSent EXCEPT ![c] = Append(@, v)]
          /\ c2r' = [c2r EXCEPT ![c] = Append(@, v)]
    /\ UNCHANGED <<newVars, closerVars, callerVars, resVars, loopVars, groupErr, connVars,
                   toBackend, backendSent, b2r, toClient, pollVars>>

\* the backend writes a byte on one stream
BackendWrite(c) ==
    /\ stream[c] = "open" /\ ~backendEnded[c]
    /\ Written < MaxBytes
    /\ LET v == BackendByte(c, Len(backendSent[c]) + 1) IN
          /\ backendSent' = [backendSent EXCEPT ![c] = Append(@, v)]
          /\ b2r' = [b2r EXCEPT ![c] = Append(@, v)]
    /\ UNCHANGED <<newVars, closerVars, callerVars, resVars, loopVars, groupErr, connVars,
                   clientSent, c2r, toBackend, toClient, pollVars>>

\* the stream opened last (the value a variable shared by all iterations holds)
LastDialled == CHOOSE c \in Conns :
                  /\ stream[c] \in {"open", "closed"}
                  /\ \A d \in Conns : stream[d] \in {"open", "closed"} => d <= c

\* (variant: the task writes to the conn of the latest iteration)
L2BCopyLatestConn(c) ==
    /\ l2b[c] = "run" /\ c2r[c] # <<>> /\ stream[LastDialled] = "open"
    /\ \E k \in 1..Len(c2r[c]) :
          /\ toBackend' = [toBackend EXCEPT ![LastDialled] = @ \o SubSeq(c2r[c], 1, k)]
          /\ c2r' = [c2r EXCEPT ![c] = SubSeq(@, k + 1, Len(@))]
    /\ UNCHANGED <<newVars, closerVars, callerVars, resVars, loopVars, groupErr, connVars,
                   clientSent, backendSent, b2r, toClient, pollVars>>

\* io.Copy(conn, tmpConn), one round: read what is there (or part of it)
\* from tmpConn and write it to conn
L2BCopy(c) ==
    /\ l2b[c] = "run" /\ c2r[c] # <<>> /\ stream[c] = "open"
    /\ \E k \in 1..Len(c2r[c]) :
          /\ toBackend' = [toBackend EXCEPT ![c] = @ \o SubSeq(c2r[c], 1, k)]
          /\ c2r' = [c2r EXCEPT ![c] = SubSeq(@, k + 1, Len(@))]
    /\ UNCHANGED <<newVars, closerVars, callerVars, resVars, loopVars, groupErr, connVars,
                   clientSent, backendSent, b2r, toClient, pollVars>>

\* io.Copy(tmpConn, conn), one round: read from conn, write to tmpConn
B2LCopy(c) ==
    /\ b2l[c] = "run" /\ b2r[c] # <<>> /\ local[c] = "accepted"
    /\ \E k \in 1..Len(b2r[c]) :
          /\ toClient' = [toClient EXCEPT ![c] = @ \o SubSeq(b2r[c], 1, k)]
          /\ b2r' = [b2r EXCEPT ![c] = SubSeq(@, k + 1, Len(@))]
    /\ UNCHANGED <<newVars, closerVars, callerVars, resVars, loopVars, groupErr, connVars,
                   clientSent, c2r, toBackend, backendSent, pollVars>>

\* moby.New has returned its backend and the relay is accepting
Serving ==
    /\ pc = "returned" /\ b = "backend" /\ cl = "handle" /\ err = "nil"
    /\ failStep = "none"
    /\ fns = <<"Wait", "Stop", "ApiClose", "ListenerClose">> /\ regLog = fns
    /\ callLog = <<>>
    /\ relPc = "idle" /\ relWho = "none" /\ relI = 0 /\ relN = 0 /\ relErr = "nil"
    /\ tdLog = <<>> /\ inFlightAtTd = 0
    /\ workDir = TRUE /\ daemon = "running" /\ api = "open" /\ listener = "open"
    /\ acceptPc = "accept" /\ cur = 0 /\ acceptRet = "none" /\ acceptErrCause = "none"
    /\ lateDialFail = FALSE
    /\ groupErr = "nil"
    /\ local = [c \in Conns |-> "none"]
    /\ clientClosed = [c \in Conns |-> FALSE]
    /\ stream = [c \in Conns |-> "none"]
    /\ backendEnded = [c \in Conns |-> FALSE]
    /\ l2b = [c \in Conns |-> "none"]
    /\ b2l = [c \in Conns |-> "none"]

InitBytes == Serving /\ NoBytes /\ PollIdle

NextBytes ==
    \/ Accept \/ AcceptErrOther \/ DialOK \/ DialFail \/ GoL2B \/ GoB2L
    \/ \E c \in Conns : ClientConnect(c)
    \/ \E c \in Conns : ClientClose(c)
    \/ \E c \in Conns : BackendEnd(c)
    \/ \E c \in Conns : ClientWrite(c)
    \/ \E c \in Conns : BackendWrite(c)
    \/ \E c \in Conns : L2BCopy(c)
    \/ \E c \in Conns : B2LCopy(c)
    \/ \E c \in Conns : L2BEof(c)
    \/ \E c \in Conns : B2LEof(c)

\* The relay while it serves, with the bytes that go through it. A task that
\* ends on an I/O error moves no byte; those steps are left to Spec.
SpecBytes == InitBytes /\ [][NextBytes]_vars

\* ------------------------------------------------------------------------
\* waitForAPI

Timeouts == {10 * j : j \in 0..MaxTimeoutTens}

\* (variant: the successful check is followed by one more round)
PingOKNoBreak ==
    /\ wPc = "ping"
    /\ wCalls' = wCalls + 1
    /\ wOkAt' = wCalls + 1
    /\ wPc' = "sleep"
    /\ UNCHANGED <<wD, wI, wSleeps, wRet>>
    /\ UNCHANGED <<newVars, closerVars, callerVars, resVars, loopVars, groupErr, connVars,
                   byteVars>>

\* apiClient.Ping returns no error: break, return nil
PingOK ==
    /\ wPc = "ping"
    /\ wCalls' = wCalls + 1
    /\ wOkAt' = wCalls + 1
    /\ wRet' = "nil"
    /\ wPc' = "done"
    /\ UNCHANGED <<wD, wI, wSleeps>>
    /\ UNCHANGED <<newVars, closerVars, callerVars, resVars, loopVars, groupErr, connVars,
                   byteVars>>

\* (variant: the timeout is declared with >= in place of >)
PingFailNotStrict ==
    /\ wPc = "ping"
    /\ wCalls' = wCalls + 1
    /\ wI' = wI + 1
    /\ \/ /\ (wI + 1) * StepMs >= wD
          /\ wRet' = "E_ping" /\ wPc' = "done"
       \/ /\ ~((wI + 1) * StepMs >= wD)
          /\ wPc' = "sleep" /\ UNCHANGED wRet
    /\ UNCHANGED <<wD, wSleeps, wOkAt>>
    /\ UNCHANGED <<newVars, closerVars, callerVars, resVars, loopVars, groupErr, connVars,
                   byteVars>>

\* apiClient.Ping returns an error: i++; if time.Duration(i)*step > d the
\* timeout error is returned, else the loop goes on to time.Sleep
PingFail ==
    /\ wPc = "ping"
    /\ wCalls' = wCalls + 1
    /\ wI' = wI + 1
    /\ \/ /\ (wI + 1) * StepMs > wD
          /\ wRet' = "E_ping" /\ wPc' = "done"
       \/ /\ ~((wI + 1) * StepMs > wD)
          /\ wPc' = "sleep" /\ UNCHANGED wRet
    /\ UNCHANGED <<wD, wSleeps, wOkAt>>
    /\ UNCHANGED <<newVars, closerVars, callerVars, resVars, loopVars, groupErr, connVars,
                   byteVars>>

\* time.Sleep(step), then the next round
Sleep ==
    /\ wPc = "sleep"
    /\ wSleeps' = wSleeps + 1
    /\ wPc' = "ping"
    /\ UNCHANGED <<wD, wI, wCalls, wOkAt, wRet>>
    /\ UNCHANGED <<newVars, closerVars, callerVars, resVars, loopVars, groupErr, connVars,
                   byteVars>>

\* moby.New is at its call of waitForAPI
AtWaitForAPI ==
    /\ pc = "waitForAPI" /\ b = "nil" /\ cl = "handle" /\ err = "nil"
    /\ failStep = "none"
    /\ fns = <<"Wait", "Stop", "ApiClose">> /\ regLog = fns
    /\ callLog = <<>>
    /\ relPc = "idle" /\ relWho = "none" /\ relI = 0 /\ relN = 0 /\ relErr = "nil"
    /\ tdLog = <<>> /\ inFlightAtTd = 0
    /\ workDir = TRUE /\ daemon = "running" /\ api = "open" /\ listener = "none"
    /\ acceptPc = "off" /\ cur = 0 /\ acceptRet = "none" /\ acceptErrCause = "none"
    /\ lateDialFail = FALSE
    /\ groupErr = "nil"
    /\ local = [c \in Conns |-> "none"]
    /\ clientClosed = [c \in Conns |-> FALSE]
    /\ stream = [c \in Conns |-> "none"]
    /\ backendEnded = [c \in Conns |-> FALSE]
    /\ l2b = [c \in Conns |-> "none"]
    /\ b2l = [c \in Conns |-> "none"]

\* waitForAPI(ctx, apiClient, d) is entered, for any timeout d
InitPoll ==
    /\ AtWaitForAPI /\ NoBytes
    /\ wPc = "ping" /\ wD \in Timeouts
    /\ wI = 0 /\ wCalls = 0 /\ wSleeps = 0 /\ wOkAt = 0 /\ wRet = "none"

NextPoll == PingOK \/ PingFail \/ Sleep

SpecPoll == InitPoll /\ [][NextPoll]_vars

\* FairSpec, and every local client eventually closes its connection
ClientsCloseSpec ==
    /\ FairSpec
    /\ \A c \in Conns : WF_vars(ClientClose(c))

\* ------------------------------------------------------------------------
\* Claims

Failed == pc = "returned" /\ failStep # "none"
Count(s, x) == Cardinality({i \in 1..Len(s) : s[i] = x})
ReleaseNames == {"Wait", "Stop", "ApiClose", "ListenerClose"}

\* C1: when a step of moby.New fails after N release actions were registered,
\* the unwind invokes exactly those N actions, each once, in reverse order of
\* registration, also past actions that fail, and New returns the error of
\* the failing step, never a release action's error.
C1_UnwindReverseOrder ==
    /\ failStep # "none" =>
          /\ Len(callLog) <= Len(regLog)
          /\ callLog = SubSeq(Reverse(regLog), 1, Len(callLog))
    /\ Failed => callLog = Reverse(regLog) /\ err = StepErr(failStep)

\* three actions registered; a release action failed (not the last one,
\* proxyGroup.Wait, which has no task to report) and the unwind went on
C1_Witness ==
    /\ Failed /\ failStep = "waitForAPI"
    /\ relErr = "E_release" /\ callLog = <<"ApiClose", "Stop", "Wait">>

\* C2: whenever moby.New has returned an error, b and cl are nil and the
\* release of everything registered has already run.
C2_FailureReturnsNoHandle ==
    (pc = "returned" /\ err # "nil") =>
        /\ b = "nil" /\ cl = "nil"
        /\ relPc = "idle"
        /\ \A f \in ReleaseNames : Count(callLog, f) = Count(regLog, f)

\* the bare return after os.CreateTemp failed
C2_Witness ==
    /\ pc = "returned" /\ failStep = "createTemp" /\ err = "E_createTemp"
    /\ Len(callLog) = 3

\* C3: over any number of teardown calls each release action is invoked at
\* most once; every call after the first invokes nothing and returns nil.
C3_TeardownIdempotent ==
    /\ \A f \in ReleaseNames : Count(callLog, f) <= 1
    /\ \A k \in 2..Len(tdLog) : tdLog[k] = <<0, "nil">>

C3_Witness == Len(tdLog) >= 2 /\ Len(callLog) = 4

\* C4: once moby.New has returned an error, nothing it acquired is still
\* held: working directory, daemon, client, listener.
C4_NoLeakOnFailure ==
    (pc = "returned" /\ err # "nil") =>
        /\ ~workDir
        /\ daemon # "running"
        /\ api # "open"
        /\ listener # "open"

\* C5: after a DialHijack failure the accept loop is still running as long
\* as the listener is open.
C5_DialFailureKeepsAccepting ==
    ((\E c \in Conns : stream[c] = "failed") /\ listener = "open") => LoopRunning

\* C6: once a teardown call has returned, no relay task is running.
C6_TeardownWaitsForTasks == Len(tdLog) >= 1 => RunningTasks = 0

\* teardown began with both connections' tasks in flight, and returned
C6_Witness == Len(tdLog) >= 1 /\ inFlightAtTd >= 3

\* C7: an accept error ends the accept-loop task without error exactly when
\* the listener was closed; for any other cause the task returns an error,
\* which the group records.
C7_AcceptErrorSurfaced ==
    /\ acceptErrCause = "closed" => acceptRet = "nil"
    /\ acceptErrCause = "other" => acceptRet \notin {"none", "nil"} /\ groupErr # "nil"

\* C8: a step in which a forwarding task of connection c ends with an I/O
\* error leaves the accept loop and everything of the other connections as
\* they were.
IoErrorStep(c) ==
    \/ l2b[c] = "run" /\ l2b'[c] = "err"
    \/ b2l[c] = "run" /\ b2l'[c] = "err"

C8_IoErrorIsLocal ==
    [][\A c \in Conns : IoErrorStep(c) =>
          /\ acceptPc' = acceptPc /\ acceptRet' = acceptRet /\ cur' = cur
          /\ \A d \in Conns \ {c} :
                /\ l2b'[d] = l2b[d] /\ b2l'[d] = b2l[d]
                /\ local'[d] = local[d] /\ stream'[d] = stream[d]]_vars

\* one connection's task failed; the loop and the other connection go on
C8_Witness ==
    /\ l2b[1] = "err" /\ acceptPc = "accept"
    /\ l2b[2] = "run" /\ b2l[2] = "run"

\* C9: once the local client of a connection has closed it, both forwarding
\* tasks of the connection eventually exit, by the relay's own steps.
C9_ClientCloseEndsBothTasks ==
    \A c \in Conns :
        (clientClosed[c] /\ l2b[c] = "run" /\ b2l[c] = "run")
            ~> (l2b[c] # "run" /\ b2l[c] # "run")

\* C10: the open backend streams are never more than the open accepted
\* local connections.
C10_StreamsAtMostLocalConns ==
    Cardinality({c \in Conns : stream[c] = "open"})
        <= Cardinality({c \in Conns : local[c] = "accepted"})

\* C11: every accepted local connection ends with both tmpConn and conn
\* closed by the relay: once the relay has nothing left to do for a connection
\* (DialHijack failed, or both forwarding tasks returned), both are closed.
RelayDoneWith(c) ==
    \/ stream[c] = "failed"
    \/ l2b[c] \in {"ok", "err"} /\ b2l[c] \in {"ok", "err"}

C11_BothDirectionsClosed ==
    \A c \in Conns : RelayDoneWith(c) => local[c] = "closed" /\ stream[c] = "closed"

\* C12: every accepted connection the accept loop has dealt with has its own
\* backend stream and both forwarding tasks.
C12_OneStreamTwoTasks ==
    \A c \in Conns :
        (local[c] \in {"accepted", "closed"} /\ cur # c) =>
            /\ stream[c] \in {"open", "closed"}
            /\ l2b[c] # "none" /\ b2l[c] # "none"

\* C16: the step in which a forwarding task ends, by end-of-stream or by an
\* error, leaves the connection it was writing to closed: conn for the
\* local-to-backend task, tmpConn for the backend-to-local task.
C16_TaskClosesItsWriteSide ==
    [][\A c \in Conns :
          /\ (l2b[c] = "run" /\ l2b'[c] # "run") => stream'[c] = "closed"
          /\ (b2l[c] = "run" /\ b2l'[c] # "run") => local'[c] = "closed"]_vars

\* C17: after a successful bootstrap the release actions run in the order
\* listener close, client close, daemon stop, task-group wait (the reverse of
\* their registration), and the wait is never begun while the listener is open.
TeardownOrder == <<"ListenerClose", "ApiClose", "Stop", "Wait">>

C17_TeardownOrder ==
    /\ failStep = "none" =>
          /\ Len(callLog) <= 4
          /\ callLog = SubSeq(TeardownOrder, 1, Len(callLog))
    /\ (failStep = "none" /\ Len(tdLog) >= 1) =>
          callLog = TeardownOrder /\ callLog = Reverse(regLog)
    /\ (relPc = "run" /\ relI < relN /\ NextFn = "Wait") => listener # "open"

\* teardown has run to its end with the accept loop started
C17_Witness ==
    /\ Len(tdLog) = 1 /\ callLog = TeardownOrder
    /\ relWho = "caller" /\ acceptPc = "done"

\* C18: a teardown call that has begun eventually returns, given that every
\* client eventually closes its connection and that stopping the daemon ends
\* the open backend streams.
C18_TeardownReturns ==
    (relPc = "run" /\ relWho = "caller") ~> (relPc = "idle")

\* teardown returned although a connection accepted just before the listener
\* was closed then failed to get its backend stream
C18_Witness == Len(tdLog) >= 1 /\ lateDialFail

TaskAdded ==
    \E c \in Conns :
        \/ l2b[c] = "none" /\ l2b'[c] = "run"
        \/ b2l[c] = "none" /\ b2l'[c] = "run"

WaitReturned == Count(callLog, "Wait") > 0

C20_TasksAddedInsideGroup ==
    /\ [][TaskAdded => (LoopRunning /\ RunningTasks >= 1 /\ ~WaitReturned)]_vars
    /\ [](WaitReturned => (~LoopRunning /\ RunningTasks = 0))

\* the accept loop adds a task while teardown is blocked in the wait
C20_Witness ==
    /\ relPc = "run" /\ relWho = "caller" /\ relI = 3 /\ relN = 4
    /\ acceptPc = "go2" /\ listener = "closed"

\* C13: what has been delivered to a connection's backend stream is a prefix
\* of what that connection's client wrote, and equal to it once the
\* local-to-backend task has ended on end-of-stream; likewise from the backend
\* stream to the client.
C13_BytesInOrderPerConnection ==
    \A c \in Conns :
        /\ IsPrefix(toBackend[c], clientSent[c])
        /\ IsPrefix(toClient[c], backendSent[c])
        /\ l2b[c] = "ok" => toBackend[c] = clientSent[c]
        /\ b2l[c] = "ok" => toClient[c] = backendSent[c]

\* two connections carry different bytes to the backend, one of them also
\* bytes back, and the first has ended cleanly
C13_Witness ==
    /\ toBackend[1] # <<>> /\ toBackend[2] # <<>> /\ toBackend[1] # toBackend[2]
    /\ toClient[2] # <<>>
    /\ l2b[1] = "ok"

\* C14: waitForAPI returns nil at the first call of Ping that succeeds, the
\* k-th, after k calls and k-1 sleeps, and does nothing after it; when no
\* call succeeds it returns the timeout error.
C14_ReturnsAtFirstSuccess ==
    /\ wOkAt # 0 => (wPc = "done" /\ wRet = "nil" /\ wOkAt = wCalls /\ wSleeps = wCalls - 1)
    /\ wRet = "nil" => wOkAt # 0
    /\ (wPc = "done" /\ wOkAt = 0) => wRet = "E_ping"
    /\ wCalls <= (wD \div StepMs) + 1

\* the check succeeded on its third call
C14_Witness == wPc = "done" /\ wRet = "nil" /\ wCalls = 3 /\ wSleeps = 2

\* C15: a sleep follows every failed check that is retried; the timeout is
\* declared at the first failed check i with i*step > d, which is check
\* floor(d/step)+1, after floor(d/step) sleeps; the time slept is at most d.
C15_TimeoutArithmetic ==
    /\ wPc = "ping" => wSleeps = wCalls
    /\ wPc = "sleep" => wSleeps = wCalls - 1
    /\ wSleeps * StepMs <= wD
    /\ wRet = "E_ping" =>
          /\ wI = wCalls /\ wI * StepMs > wD /\ (wI - 1) * StepMs <= wD
          /\ wCalls = (wD \div StepMs) + 1
          /\ wSleeps = wD \div StepMs
          /\ wSleeps = wCalls - 1
    /\ (wRet = "E_ping" /\ wD = 200) => (wCalls = 5 /\ wSleeps = 4)

\* d = 200 ms: the fifth check failed and the timeout was declared
C15_Witness == wRet = "E_ping" /\ wD = 200 /\ wCalls = 5 /\ wSleeps = 4

====
